---- MODULE Spec2Model ----
(***************************************************************************)
(* Query handler subsystem of puppeteer (src/common/QueryHandler.ts):      *)
(* the registry of named query handlers, the selector resolver, and the    *)
(* bridge that turns a target-side iterator into a controller-side async   *)
(* generator of element handles (queryAll), together with its for-await    *)
(* consumers Iterable.map, Iterable.reduce and Iterable.first.             *)
(*                                                                         *)
(* Strings are sequences of one-character strings.                         *)
(***************************************************************************)
EXTENDS Integers, Sequences, FiniteSets, TLC

\* ------------------------------------------------------------------ bounds
MaxNameLen == 1
MaxSelLen == 3
MaxRestLen == 1
MaxRegistrations == 3
MaxItems == 3

\* ------------------------------------------------------------- characters
\* The character class [a-zA-Z] of the two regular expressions.
Letters ==
  {"a","b","c","d","e","f","g","h","i","j","k","l","m",
   "n","o","p","q","r","s","t","u","v","w","x","y","z",
   "A","B","C","D","E","F","G","H","I","J","K","L","M",
   "N","O","P","Q","R","S","T","U","V","W","X","Y","Z"}

\* Characters the enumerated inputs are built from: a letter, a digit and
\* the separator.
Chars == {"a", "1", "/"}

RECURSIVE StringsOfLen(_)
StringsOfLen(n) ==
  IF n = 0 THEN {<<>>}
  ELSE {Append(s, c) : s \in StringsOfLen(n - 1), c \in Chars}

Strings(n) == UNION {StringsOfLen(k) : k \in 0..n}

\* ---------------------------------------------------- JavaScript strings
\* String.prototype.indexOf(ch): 0-based index of the first occurrence, -1
\* when there is none.
IndexOf(s, ch) ==
  IF \E i \in 1..Len(s) : s[i] = ch
  THEN (CHOOSE i \in 1..Len(s) :
          s[i] = ch /\ \A j \in 1..(i - 1) : s[j] # ch) - 1
  ELSE -1

IndexOfLast(s, ch) ==
  IF \E i \in 1..Len(s) : s[i] = ch
  THEN (CHOOSE i \in 1..Len(s) :
          s[i] = ch /\ \A j \in (i + 1)..Len(s) : s[j] # ch) - 1
  ELSE -1

\* String.prototype.slice(from, to) for 0 <= from, to: the characters at
\* the 0-based positions from .. to-1.
Slice(s, from, to) == SubSeq(s, from + 1, to)

\* String.prototype.slice(from): to the end of the string.
SliceFrom(s, from) == SubSeq(s, from + 1, Len(s))

\* /^[a-zA-Z]+$/.test(name)
IsValidNameLax(name) == \A i \in 1..Len(name) : name[i] \in Letters

IsValidName(name) ==
  /\ Len(name) >= 1
  /\ \A i \in 1..Len(name) : name[i] \in Letters

\* /^[a-zA-Z]+\//.test(selector): one or more letters from the start of the
\* text, immediately followed by "/".
HasCustomQueryHandlerAnySlash(selector) ==
  \E i \in 1..Len(selector) : selector[i] = "/"

HasCustomQueryHandler(selector) ==
  \E k \in 1..(Len(selector) - 1) :
    /\ \A i \in 1..k : selector[i] \in Letters
    /\ selector[k + 1] = "/"

\* ------------------------------------------------------------- handlers
\* A CustomQueryHandler (the raw handler): which of the two optional
\* functions it has.
RawHandlers == [queryOne : BOOLEAN, queryAll : BOOLEAN]

BothFunctions == [queryOne |-> TRUE, queryAll |-> TRUE]

\* createInternalQueryHandler(handler): a fresh object (obj is its
\* identity) with queryOne and waitFor when the raw handler has queryOne,
\* queryAll and queryAllArray when it has queryAll.
InternalCapabilitiesStub(handler) ==
  {"queryOne", "waitFor", "queryAll", "queryAllArray"}

InternalCapabilities(handler) ==
  (IF handler.queryOne THEN {"queryOne", "waitFor"} ELSE {})
    \cup (IF handler.queryAll THEN {"queryAll", "queryAllArray"} ELSE {})

createInternalQueryHandler(handler, obj) ==
  [kind |-> "custom", obj |-> obj, raw |-> handler,
   caps |-> InternalCapabilities(handler)]

BuiltIn(kind) ==
  [kind |-> kind, obj |-> 0, raw |-> BothFunctions,
   caps |-> InternalCapabilities(BothFunctions)]

defaultHandler == BuiltIn("default")
pierceHandler == BuiltIn("pierce")
ariaHandler == BuiltIn("aria")

\* What Map.prototype.get returns for a missing key.
Undefined == [kind |-> "undefined", obj |-> 0, raw |-> BothFunctions, caps |-> {}]

\* JavaScript truthiness of the value of a map entry: every handler is an
\* object, only undefined is falsy.
Truthy(v) == v # Undefined

\* ------------------------------------------------------ JavaScript Map
\* A Map is the sequence of its entries in insertion order.
MapKeys(m) == [i \in 1..Len(m) |-> m[i].key]

MapHas(m, k) == \E i \in 1..Len(m) : m[i].key = k

MapGet(m, k) ==
  IF MapHas(m, k)
  THEN m[CHOOSE i \in 1..Len(m) : m[i].key = k].value
  ELSE Undefined

\* set keeps the position of a key that is already present.
MapSet(m, k, v) ==
  IF MapHas(m, k)
  THEN [i \in 1..Len(m) |-> IF m[i].key = k THEN [key |-> k, value |-> v] ELSE m[i]]
  ELSE Append(m, [key |-> k, value |-> v])

MapDelete(m, k) == SelectSeq(m, LAMBDA e : e.key # k)

ariaName == <<"a", "r", "i", "a">>
pierceName == <<"p", "i", "e", "r", "c", "e">>

builtInHandlers ==
  <<[key |-> ariaName, value |-> ariaHandler],
    [key |-> pierceName, value |-> pierceHandler]>>

BuiltInNames == {ariaName, pierceName}

\* ---------------------------------------------------------------- inputs
\* "Z", "1bad" and "ab-c"
ExampleNames == {<<"Z">>, <<"1", "b", "a", "d">>, <<"a", "b", "-", "c">>}

NameInputs == Strings(MaxNameLen) \cup BuiltInNames \cup ExampleNames

RestInputs == Strings(MaxRestLen)

\* aria/[name="x"]
AriaExample ==
  ariaName \o <<"/", "[", "n", "a", "m", "e", "=", "\"", "x", "\"", "]">>

\* div > a[href='/x']
CssExample ==
  <<"d", "i", "v", " ", ">", " ", "a", "[", "h", "r", "e", "f", "=",
    "'", "/", "x", "'", "]">>

\* 1abc/x
DigitExample == <<"1", "a", "b", "c", "/", "x">>

ExampleSelectors == {AriaExample, CssExample, DigitExample}

SelectorInputs ==
  Strings(MaxSelLen)
    \cup {n \o <<"/">> \o r : n \in BuiltInNames \cup ExampleNames,
                                r \in RestInputs}
    \cup ExampleSelectors

\* ----------------------------------------------------------------- state
VARIABLES
  queryHandlers,   \* the registry Map: name -> InternalQueryHandler
  created,         \* number of internal handler objects created by register
  last,            \* the last call: its operation, arguments and outcome
  handles,         \* the remote handles created so far, by handle id
  call,            \* the queryAll calls: bridge, target iterator and consumer
  live,            \* history: the successful registrations not removed since
  removed,         \* history: the registrations removed by unregister or clear
  recording        \* whether this behaviour records removed

registryVars == <<queryHandlers, created, live, removed, recording>>
bridgeVars == <<handles, call>>
vars == <<queryHandlers, created, last, handles, call, live, removed,
         recording>>

NoCall ==
  [op |-> "none", name |-> <<>>, handler |-> BothFunctions, outcome |-> "ok",
   queryHandler |-> Undefined, updatedSelector |-> <<>>, engine |-> <<>>,
   names |-> <<>>]

\* ------------------------------------------------- registry operations
\* The outcome of _registerCustomQueryHandler(name, handler) in registry m:
\* the duplicate check comes first, then the name check.
RegisterOutcomeSticky(m, name) ==
  IF Truthy(MapGet(m, name)) \/ \E e \in removed : e.name = name
  THEN "duplicate"
  ELSE IF ~IsValidName(name) THEN "invalid"
  ELSE "ok"

RegisterOutcome(m, name) ==
  IF Truthy(MapGet(m, name)) THEN "duplicate"
  ELSE IF ~IsValidName(name) THEN "invalid"
  ELSE "ok"

RegisterResultOverwrite(m, name, handler, obj) ==
  IF IsValidName(name)
  THEN MapSet(m, name, createInternalQueryHandler(handler, obj))
  ELSE m

RegisterResult(m, name, handler, obj) ==
  IF RegisterOutcome(m, name) = "ok"
  THEN MapSet(m, name, createInternalQueryHandler(handler, obj))
  ELSE m

\* _unregisterCustomQueryHandler(name)
UnregisterResultAny(m, name) == MapDelete(m, name)

UnregisterResultInverted(m, name) ==
  IF MapHas(m, name) /\ MapHas(builtInHandlers, name)
  THEN MapDelete(m, name)
  ELSE m

UnregisterResult(m, name) ==
  IF MapHas(m, name) /\ ~MapHas(builtInHandlers, name)
  THEN MapDelete(m, name)
  ELSE m

\* _customQueryHandlerNames()
CustomQueryHandlerNamesAll(m) == MapKeys(m)

CustomQueryHandlerNames(m) ==
  SelectSeq(MapKeys(m), LAMBDA name : ~MapHas(builtInHandlers, name))

\* names.forEach(_unregisterCustomQueryHandler), over the snapshot names
RECURSIVE ForEachUnregister(_, _)
ForEachUnregister(m, names) ==
  IF names = <<>> THEN m
  ELSE ForEachUnregister(UnregisterResult(m, Head(names)), Tail(names))

\* _clearCustomQueryHandlers()
ClearResultButFirst(m) ==
  LET names == CustomQueryHandlerNames(m)
  IN IF names = <<>> THEN m ELSE ForEachUnregister(m, Tail(names))

ClearResult(m) == ForEachUnregister(m, CustomQueryHandlerNames(m))

\* _getQueryHandlerAndSelector(selector) in registry m
GetQueryHandlerAndSelectorLastSlash(m, selector) ==
  IF ~HasCustomQueryHandler(selector)
  THEN [outcome |-> "ok", name |-> <<>>,
        updatedSelector |-> selector, queryHandler |-> defaultHandler]
  ELSE
    LET index == IndexOfLast(selector, "/")
        name == Slice(selector, 0, index)
        updatedSelector == SliceFrom(selector, index + 1)
        queryHandler == MapGet(m, name)
    IN IF ~Truthy(queryHandler)
       THEN [outcome |-> "unknown", name |-> name,
             updatedSelector |-> <<>>, queryHandler |-> Undefined]
       ELSE [outcome |-> "ok", name |-> name,
             updatedSelector |-> updatedSelector, queryHandler |-> queryHandler]

GetQueryHandlerAndSelectorFallback(m, selector) ==
  IF ~HasCustomQueryHandler(selector)
  THEN [outcome |-> "ok", name |-> <<>>,
        updatedSelector |-> selector, queryHandler |-> defaultHandler]
  ELSE
    LET index == IndexOf(selector, "/")
        name == Slice(selector, 0, index)
        updatedSelector == SliceFrom(selector, index + 1)
        queryHandler == MapGet(m, name)
    IN IF ~Truthy(queryHandler)
       THEN [outcome |-> "ok", name |-> <<>>,
             updatedSelector |-> selector, queryHandler |-> defaultHandler]
       ELSE [outcome |-> "ok", name |-> name,
             updatedSelector |-> updatedSelector, queryHandler |-> queryHandler]

GetQueryHandlerAndSelector(m, selector) ==
  IF ~HasCustomQueryHandler(selector)
  THEN [outcome |-> "ok", name |-> <<>>,
        updatedSelector |-> selector, queryHandler |-> defaultHandler]
  ELSE
    LET index == IndexOf(selector, "/")
        name == Slice(selector, 0, index)
        updatedSelector == SliceFrom(selector, index + 1)
        queryHandler == MapGet(m, name)
    IN IF ~Truthy(queryHandler)
       THEN [outcome |-> "unknown", name |-> name,
             updatedSelector |-> <<>>, queryHandler |-> Undefined]
       ELSE [outcome |-> "ok", name |-> name,
             updatedSelector |-> updatedSelector, queryHandler |-> queryHandler]

\* --------------------------------------------------------------- actions
Init ==
  /\ queryHandlers = builtInHandlers
  /\ created = 0
  /\ last = NoCall
  /\ handles = <<>>
  /\ call = <<>>
  /\ live = <<>>
  /\ removed = {}
  /\ recording = FALSE

\* The exported functions are synchronous: a call runs to its return (or
\* its throw) before the next one is made.  last holds the call that has
\* just run until its caller has taken the result.
Register(name, handler) ==
  LET outcome == RegisterOutcome(queryHandlers, name)
  IN /\ last = NoCall
     /\ outcome = "ok" => created < MaxRegistrations
     /\ queryHandlers' = RegisterResult(queryHandlers, name, handler, created + 1)
     /\ created' = IF outcome = "ok" THEN created + 1 ELSE created
     /\ last' = [NoCall EXCEPT !.op = "register", !.name = name,
                               !.handler = handler, !.outcome = outcome]
     /\ live' = IF outcome = "ok"
                THEN Append(live, [name |-> name, obj |-> created + 1])
                ELSE live
     /\ UNCHANGED <<removed, recording, bridgeVars>>

Unregister(name) ==
  /\ last = NoCall
  /\ queryHandlers' = UnregisterResult(queryHandlers, name)
  /\ last' = [NoCall EXCEPT !.op = "unregister", !.name = name]
  /\ live' = SelectSeq(live, LAMBDA e : e.name # name)
  /\ removed' = IF recording
                THEN removed \cup {live[i] : i \in {j \in DOMAIN live :
                                                       live[j].name = name}}
                ELSE removed
  /\ UNCHANGED <<created, recording, bridgeVars>>

Names ==
  /\ last = NoCall
  /\ last' = [NoCall EXCEPT !.op = "names",
                            !.names = CustomQueryHandlerNames(queryHandlers)]
  /\ UNCHANGED <<registryVars, bridgeVars>>

Clear ==
  /\ last = NoCall
  /\ queryHandlers' = ClearResult(queryHandlers)
  /\ last' = [NoCall EXCEPT !.op = "clear",
                            !.names = CustomQueryHandlerNames(queryHandlers)]
  /\ live' = <<>>
  /\ removed' = IF recording
                THEN removed \cup {live[i] : i \in DOMAIN live}
                ELSE removed
  /\ UNCHANGED <<created, recording, bridgeVars>>

Resolve(selector) ==
  LET r == GetQueryHandlerAndSelector(queryHandlers, selector)
  IN /\ last = NoCall
     /\ last' = [NoCall EXCEPT !.op = "resolve", !.name = selector,
                               !.outcome = r.outcome,
                               !.queryHandler = r.queryHandler,
                               !.updatedSelector = r.updatedSelector,
                               !.engine = r.name]
     /\ UNCHANGED <<registryVars, bridgeVars>>

\* the call returns to its caller
Return ==
  /\ last # NoCall
  /\ last' = NoCall
  /\ UNCHANGED <<registryVars, bridgeVars>>

Next ==
  \/ \E name \in NameInputs, handler \in RawHandlers : Register(name, handler)
  \/ \E name \in NameInputs : Unregister(name)
  \/ Names
  \/ Clear
  \/ \E selector \in SelectorInputs : Resolve(selector)
  \/ Return

Spec == Init /\ [][Next]_vars

\* The same program, in behaviours that record the removed registrations.
InitHistory ==
  /\ queryHandlers = builtInHandlers
  /\ created = 0
  /\ last = NoCall
  /\ handles = <<>>
  /\ call = <<>>
  /\ live = <<>>
  /\ removed = {}
  /\ recording = TRUE

SpecHistory == InitHistory /\ [][Next]_vars

\* ------------------------------------------------- registry properties
\* The text matches ^[A-Za-z]+$ : it is a non-empty run of letters.
MatchesEngineName(name) ==
  /\ name # <<>>
  /\ {name[i] : i \in DOMAIN name} \subseteq Letters

\* The position of the first "/" of a text that has one.
FirstSlash(selector) ==
  CHOOSE k \in DOMAIN selector :
    selector[k] = "/" /\ "/" \notin {selector[j] : j \in 1..(k - 1)}

\* The text begins with one or more letters immediately followed by "/".
HasEnginePrefix(selector) ==
  /\ "/" \in {selector[i] : i \in DOMAIN selector}
  /\ MatchesEngineName(SubSeq(selector, 1, FirstSlash(selector) - 1))

\* The names of the custom entries of a registry.
CustomNamesOf(m) == {m[i].key : i \in DOMAIN m} \ BuiltInNames

WithPrefix(name, rest) == name \o <<"/">> \o rest

\* C1: registering a valid name that is not in the registry succeeds and
\* binds it to the internal handler adapted from the raw handler given; the
\* binding of a custom name changes only when that name is unregistered or
\* the registry is cleared; and resolving "name/rest" for a bound custom
\* name returns that binding and rest.
C1_Step ==
  /\ (/\ last'.op = "register"
      /\ MatchesEngineName(last'.name)
      /\ ~MapHas(queryHandlers, last'.name))
       => /\ last'.outcome = "ok"
          /\ MapHas(queryHandlers', last'.name)
          /\ MapGet(queryHandlers', last'.name).kind = "custom"
          /\ MapGet(queryHandlers', last'.name).raw = last'.handler
          /\ MapGet(queryHandlers', last'.name).obj = created'
          /\ created' = created + 1
  /\ \A n \in CustomNamesOf(queryHandlers) :
       (/\ ~(last'.op = "unregister" /\ last'.name = n)
        /\ last'.op # "clear")
         => /\ MapHas(queryHandlers', n)
            /\ MapGet(queryHandlers', n) = MapGet(queryHandlers, n)
  /\ (/\ last'.op = "resolve"
      /\ HasEnginePrefix(last'.name)
      /\ SubSeq(last'.name, 1, FirstSlash(last'.name) - 1)
           \in CustomNamesOf(queryHandlers'))
       => LET k == FirstSlash(last'.name)
          IN /\ last'.outcome = "ok"
             /\ last'.queryHandler
                  = MapGet(queryHandlers', SubSeq(last'.name, 1, k - 1))
             /\ last'.updatedSelector
                  = SubSeq(last'.name, k + 1, Len(last'.name))

C1_RegisterThenResolve == [][C1_Step]_vars

\* C1 witness: with a second engine registered in between, the first
\* registered engine is resolved with a selector that itself is a "/".
C1_Witness ==
  /\ last.op = "resolve"
  /\ last.outcome = "ok"
  /\ last.queryHandler.kind = "custom"
  /\ last.queryHandler.obj = 1
  /\ created = 2
  /\ Len(queryHandlers) = 4
  /\ last.updatedSelector = <<"/">>

\* C2: registering a name that does not match ^[A-Za-z]+$ fails with the
\* invalid-name error and leaves the registry, and so the list of custom
\* names, as it was.
C2_Step ==
  (last'.op = "register" /\ ~MatchesEngineName(last'.name))
    => /\ last'.outcome = "invalid"
       /\ queryHandlers' = queryHandlers
       /\ CustomQueryHandlerNames(queryHandlers')
            = CustomQueryHandlerNames(queryHandlers)

C2_InvalidNameRejected == [][C2_Step]_vars

\* C2 witness: "1bad" was rejected while a custom engine is registered.
C2_Witness ==
  /\ last.op = "register"
  /\ last.outcome = "invalid"
  /\ last.name = <<"1", "b", "a", "d">>
  /\ CustomNamesOf(queryHandlers) # {}

\* C3: registering a name that is in the registry, built-in or custom, fails
\* with the duplicate-name error whatever the handler given, and the
\* registry, the name's binding included, stays as it was.
C3_Step ==
  (last'.op = "register" /\ last'.name \in {queryHandlers[i].key : i \in DOMAIN queryHandlers})
    => /\ last'.outcome = "duplicate"
       /\ queryHandlers' = queryHandlers
       /\ created' = created

C3_DuplicateRejected == [][C3_Step]_vars

\* C3 witness: a custom name was registered again with a different raw
\* handler, and is still bound to the first one.
C3_Witness ==
  /\ last.op = "register"
  /\ last.outcome = "duplicate"
  /\ last.name \notin BuiltInNames
  /\ MapGet(queryHandlers, last.name).raw # last.handler

\* C4: each built-in name is in the registry, bound to its built-in
\* handler, in every reachable state.
C4_BuiltInsKept ==
  /\ \E i \in DOMAIN queryHandlers :
       queryHandlers[i] = [key |-> ariaName, value |-> ariaHandler]
  /\ \E i \in DOMAIN queryHandlers :
       queryHandlers[i] = [key |-> pierceName, value |-> pierceHandler]
  /\ Cardinality({i \in DOMAIN queryHandlers : queryHandlers[i].key \in BuiltInNames}) = 2

\* C4 witness: a built-in name was given to unregister, with custom engines
\* registered.
C4_Witness ==
  /\ last.op = "unregister"
  /\ last.name = ariaName
  /\ created >= 1

\* C5: unregister never fails; for an absent or a built-in name it changes
\* nothing; for a custom name it removes that entry and no other; a second
\* call changes nothing more; the custom names hold no built-in name before
\* or after.
C5_Step ==
  last'.op = "unregister" =>
    LET n == last'.name
        custom == CustomNamesOf(queryHandlers)
    IN /\ last'.outcome = "ok"
       /\ n \notin custom => queryHandlers' = queryHandlers
       /\ n \in custom =>
            /\ queryHandlers' = SelectSeq(queryHandlers, LAMBDA e : e.key # n)
            /\ CustomNamesOf(queryHandlers') = custom \ {n}
       /\ UnregisterResult(queryHandlers', n) = queryHandlers'
       /\ \A i \in DOMAIN CustomQueryHandlerNames(queryHandlers) :
            CustomQueryHandlerNames(queryHandlers)[i] \notin BuiltInNames
       /\ \A i \in DOMAIN CustomQueryHandlerNames(queryHandlers') :
            CustomQueryHandlerNames(queryHandlers')[i] \notin BuiltInNames

C5_UnregisterFrame == [][C5_Step]_vars

\* C5 witness: "a", registered second, was unregistered and "Z", registered
\* first, is still there.
C5_Witness ==
  /\ last.op = "unregister"
  /\ last.name = <<"a">>
  /\ created = 2
  /\ ~MapHas(queryHandlers, <<"a">>)
  /\ MapHas(queryHandlers, <<"Z">>)
  /\ MapGet(queryHandlers, <<"Z">>).obj = 1

\* C6: after clear the list of custom names is empty, no name that was
\* custom resolves any more, and each built-in name resolves to its handler.
C6_Step ==
  last'.op = "clear" =>
    /\ last'.names = CustomQueryHandlerNames(queryHandlers)
    /\ CustomQueryHandlerNames(queryHandlers') = <<>>
    /\ \A n \in CustomNamesOf(queryHandlers), rest \in RestInputs :
         GetQueryHandlerAndSelector(queryHandlers', WithPrefix(n, rest)).outcome
           = "unknown"
    /\ \A rest \in RestInputs :
         /\ GetQueryHandlerAndSelector(queryHandlers', WithPrefix(ariaName, rest))
              = [outcome |-> "ok", name |-> ariaName,
                 updatedSelector |-> rest, queryHandler |-> ariaHandler]
         /\ GetQueryHandlerAndSelector(queryHandlers', WithPrefix(pierceName, rest))
              = [outcome |-> "ok", name |-> pierceName,
                 updatedSelector |-> rest, queryHandler |-> pierceHandler]

C6_ClearRemovesCustom == [][C6_Step]_vars

\* C6 witness: clear was called with two custom engines registered.
C6_Witness ==
  /\ last.op = "clear"
  /\ Len(last.names) = 2
  /\ queryHandlers = builtInHandlers

\* C7: a selector that does not begin with letters immediately followed by
\* "/" resolves to the default handler and itself, in every registry state.
C7_NoPrefixDefault ==
  (last.op = "resolve" /\ ~HasEnginePrefix(last.name))
    => /\ last.outcome = "ok"
       /\ last.queryHandler = defaultHandler
       /\ last.updatedSelector = last.name

\* C7 witness: "1abc/x", which has a "/" later in its text, was resolved
\* with a custom engine registered.
C7_Witness ==
  /\ last.op = "resolve"
  /\ last.name = DigitExample
  /\ last.queryHandler = defaultHandler
  /\ CustomNamesOf(queryHandlers) # {}

\* C8: a selector that begins with letters immediately followed by "/" is
\* split at its first "/"; a name in the registry gives its handler and the
\* text after that "/", a name that is not fails with the unknown-engine
\* error naming it; resolving changes neither the registry nor the remote
\* handles and calls.
C8_Step ==
  (last'.op = "resolve" /\ HasEnginePrefix(last'.name))
    => LET k == FirstSlash(last'.name)
           name == SubSeq(last'.name, 1, k - 1)
           rest == SubSeq(last'.name, k + 1, Len(last'.name))
       IN /\ last'.engine = name
          /\ IF \E i \in DOMAIN queryHandlers : queryHandlers[i].key = name
             THEN /\ last'.outcome = "ok"
                  /\ last'.queryHandler = MapGet(queryHandlers, name)
                  /\ last'.updatedSelector = rest
             ELSE /\ last'.outcome = "unknown"
                  /\ last'.queryHandler = Undefined
          /\ UNCHANGED <<queryHandlers, created, handles, call>>

C8_SplitAtFirstSlash == [][C8_Step]_vars

\* C8 witness: "a//" was resolved while no engine "a" is registered, and
\* another custom engine is.
C8_Witness ==
  /\ last.op = "resolve"
  /\ last.name = <<"a", "/", "/">>
  /\ last.outcome = "unknown"
  /\ last.engine = <<"a">>
  /\ CustomNamesOf(queryHandlers) # {}

\* ------------------------------------------------------ remote handles
\* Values of the target: three DOM elements, a value that is no element,
\* and the undefined that iterator.next().value is once the iterator is done.
Elements == {"a", "b", "c"}
NonElements == {"null"}
UndefinedValue == "undefined"

\* What the raw queryAll can return in the target: an iterable of values.
RECURSIVE IterablesOfLen(_)
IterablesOfLen(n) ==
  IF n = 0 THEN {<<>>}
  ELSE {Append(s, v) : s \in IterablesOfLen(n - 1),
                       v \in Elements \cup NonElements}

TargetIterables == UNION {IterablesOfLen(k) : k \in 0..MaxItems}

\* The for-await consumers: Iterable.map, Iterable.reduce, Iterable.first.
Consumers == {"map", "reduce", "first"}

\* A handle returned by evaluateHandle; disposed counts its dispose() calls.
NewHandle(kind, c, value) ==
  [kind |-> kind, call |-> c, value |-> value, disposed |-> 0]

\* handle.dispose() on handle h
Dispose(hs, h) == [hs EXCEPT ![h].disposed = @ + 1]

\* nextHandle.asElement(): the handle itself when it denotes an element,
\* null (0) otherwise.
AsElement(hs, h) == IF hs[h].value \in Elements THEN h ELSE 0

\* iterator.next().value in the target, for the iterator of items that has
\* produced pos values so far.
NextValueSkipping(items, pos) ==
  IF pos + 1 < Len(items) THEN items[pos + 2] ELSE UndefinedValue

NextValue(items, pos) ==
  IF pos < Len(items) THEN items[pos + 1] ELSE UndefinedValue

IdleCall ==
  [pc |-> "idle", items |-> <<>>, pos |-> 0, consumer |-> "none",
   iterableHandle |-> 0, iteratorHandle |-> 0, nextHandle |-> 0,
   elementHandle |-> 0, results |-> <<>>, running |-> {}, inBody |-> FALSE,
   pulls |-> 0, advances |-> 0, jsHandle |-> 0, result |-> 0]

\* ------------------------------------------- internalHandler.queryOne
\* const jsHandle = await element.evaluateHandle(queryOne, selector);
\* found is what the raw queryOne returns in the target
QueryOne(c, found) ==
  /\ call[c].pc = "idle"
  /\ "queryOne" \in defaultHandler.caps
  /\ call' = [call EXCEPT ![c] = [@ EXCEPT !.pc = "evalQueryOne",
                                           !.items = <<found>>]]
  /\ UNCHANGED <<registryVars, last, handles>>

\* ... the target answers; elementHandle = jsHandle.asElement(); an element
\* handle is returned, for anything else await jsHandle.dispose()
EvalQueryOneReturnsKeep(c) ==
  LET r == call[c]
      h == Len(handles) + 1
      hs == Append(handles, NewHandle("js", c, r.items[1]))
      e == AsElement(hs, h)
  IN /\ r.pc = "evalQueryOne"
     /\ handles' = hs
     /\ call' = [call EXCEPT ![c] =
                   [r EXCEPT !.jsHandle = h, !.elementHandle = e,
                             !.pc = IF e # 0 THEN "returnedOne" ELSE "disposeJs",
                             !.result = e]]
     /\ UNCHANGED <<registryVars, last>>

EvalQueryOneReturns(c) ==
  LET r == call[c]
      h == Len(handles) + 1
      hs == Append(handles, NewHandle("js", c, r.items[1]))
      e == AsElement(hs, h)
      r1 == [r EXCEPT !.jsHandle = h, !.elementHandle = e]
  IN /\ r.pc = "evalQueryOne"
     /\ IF e # 0
        THEN /\ handles' = hs
             /\ call' = [call EXCEPT ![c] = [r1 EXCEPT !.pc = "returnedOne",
                                                       !.result = e]]
        ELSE /\ handles' = Dispose(hs, h)
             /\ call' = [call EXCEPT ![c] = [r1 EXCEPT !.pc = "disposeJs"]]
     /\ UNCHANGED <<registryVars, last>>

\* the evaluateHandle rejects: queryOne rejects
EvalQueryOneFails(c) ==
  /\ call[c].pc = "evalQueryOne"
  /\ call' = [call EXCEPT ![c] = [@ EXCEPT !.pc = "failed"]]
  /\ UNCHANGED <<registryVars, last, handles>>

\* ... jsHandle.dispose() is done: return null (0)
DisposeJsReturns(c) ==
  /\ call[c].pc = "disposeJs"
  /\ call' = [call EXCEPT ![c] = [@ EXCEPT !.pc = "returnedOne", !.result = 0]]
  /\ UNCHANGED <<registryVars, last, handles>>

\* ------------------------------------------- internalHandler.queryAll
\* const iterableHandle = await element.evaluateHandle(queryAll, selector)
QueryAll(c, items, consumer) ==
  /\ call[c].pc = "idle"
  /\ "queryAll" \in defaultHandler.caps
  /\ call' = [call EXCEPT ![c] = [@ EXCEPT !.pc = "evalQueryAll",
                                           !.items = items,
                                           !.consumer = consumer]]
  /\ UNCHANGED <<registryVars, last, handles>>

\* ... the target answers; then
\* const iteratorHandle = await iterableHandle.evaluateHandle(...)
EvalQueryAllReturns(c) ==
  /\ call[c].pc = "evalQueryAll"
  /\ handles' = Append(handles, NewHandle("iterable", c, "iterable"))
  /\ call' = [call EXCEPT ![c] = [@ EXCEPT !.pc = "evalIterator",
                                           !.iterableHandle = Len(handles) + 1]]
  /\ UNCHANGED <<registryVars, last>>

\* the first evaluateHandle rejects: queryAll rejects
EvalQueryAllFails(c) ==
  /\ call[c].pc = "evalQueryAll"
  /\ call' = [call EXCEPT ![c] = [@ EXCEPT !.pc = "failed"]]
  /\ UNCHANGED <<registryVars, last, handles>>

\* ... the target answers with the iterator; then
\* await iterableHandle.dispose()
EvalIteratorReturns(c) ==
  /\ call[c].pc = "evalIterator"
  /\ handles' = Dispose(Append(handles, NewHandle("iterator", c, "iterator")),
                        call[c].iterableHandle)
  /\ call' = [call EXCEPT ![c] = [@ EXCEPT !.pc = "disposeIterable",
                                           !.iteratorHandle = Len(handles) + 1]]
  /\ UNCHANGED <<registryVars, last>>

\* the second evaluateHandle rejects: queryAll rejects
EvalIteratorFails(c) ==
  /\ call[c].pc = "evalIterator"
  /\ call' = [call EXCEPT ![c] = [@ EXCEPT !.pc = "failed"]]
  /\ UNCHANGED <<registryVars, last, handles>>

\* ... the dispose is done; return generate(iteratorHandle)
DisposeIterableReturns(c) ==
  /\ call[c].pc = "disposeIterable"
  /\ call' = [call EXCEPT ![c] = [@ EXCEPT !.pc = "suspendedStart"]]
  /\ UNCHANGED <<registryVars, last, handles>>

\* ------------------------------------------------------------ generate
\* const nextHandle = await handle.evaluateHandle(iterator => ...)
AdvancePrefetch(r) == [r EXCEPT !.pc = "evalNext", !.advances = @ + 2]

Advance(r) == [r EXCEPT !.pc = "evalNext", !.advances = @ + 1]

\* do { ... } while (elementHandle)
LoopContinues(elementHandle) == elementHandle # 0

\* the generator is resumed after its yield: await nextHandle.dispose()
ResumeAfterYield(c, r) ==
  /\ handles' = Dispose(handles, r.nextHandle)
  /\ call' = [call EXCEPT ![c] = [r EXCEPT !.pc = "disposeNext"]]

\* ... the target answers with the next value; elementHandle =
\* nextHandle.asElement(); an element is yielded, for anything else
\* await nextHandle.dispose()
EvalNextReturnsShared(c) ==
  LET r == call[c]
      h == Len(handles) + 1
      hs == Append(handles, NewHandle("next", c, NextValue(call[1].items,
                                                           call[1].pos)))
      e == AsElement(hs, h)
      r1 == [r EXCEPT !.nextHandle = h, !.elementHandle = e]
      advanced == [call EXCEPT ![1].pos =
                     IF @ < Len(call[1].items) THEN @ + 1 ELSE @]
  IN /\ r.pc = "evalNext"
     /\ IF e # 0
        THEN /\ handles' = hs
             /\ call' = [advanced EXCEPT ![c] =
                           [r1 EXCEPT !.pc = "suspendedYield",
                                      !.results = Append(@, e),
                                      !.inBody = FALSE,
                                      !.pos = advanced[c].pos]]
        ELSE /\ handles' = Dispose(hs, h)
             /\ call' = [advanced EXCEPT ![c] =
                           [r1 EXCEPT !.pc = "disposeNext",
                                      !.pos = advanced[c].pos]]
     /\ UNCHANGED <<registryVars, last>>

EvalNextReturns(c) ==
  LET r == call[c]
      h == Len(handles) + 1
      hs == Append(handles, NewHandle("next", c, NextValue(r.items, r.pos)))
      e == AsElement(hs, h)
      r1 == [r EXCEPT !.nextHandle = h, !.elementHandle = e,
                      !.pos = IF @ < Len(r.items) THEN @ + 1 ELSE @]
  IN /\ r.pc = "evalNext"
     /\ IF e # 0
        THEN /\ handles' = hs
             /\ call' = [call EXCEPT ![c] =
                           [r1 EXCEPT !.pc = "suspendedYield",
                                      !.results = Append(@, e),
                                      !.inBody = FALSE]]
        ELSE /\ handles' = Dispose(hs, h)
             /\ call' = [call EXCEPT ![c] = [r1 EXCEPT !.pc = "disposeNext"]]
     /\ UNCHANGED <<registryVars, last>>

\* the evaluateHandle inside the generator rejects: the generator throws
EvalNextFails(c) ==
  /\ call[c].pc = "evalNext"
  /\ call' = [call EXCEPT ![c] = [@ EXCEPT !.pc = "threw"]]
  /\ UNCHANGED <<registryVars, last, handles>>

\* ... nextHandle.dispose() is done: the loop goes round again, or ends
\* with await handle.dispose()
DisposeNextReturnsEager(c) ==
  LET r == call[c]
  IN /\ r.pc = "disposeNext"
     /\ handles' = Dispose(handles, r.iteratorHandle)
     /\ IF LoopContinues(r.elementHandle)
        THEN call' = [call EXCEPT ![c] = Advance(r)]
        ELSE call' = [call EXCEPT ![c] = [r EXCEPT !.pc = "disposeIterator"]]
     /\ UNCHANGED <<registryVars, last>>

DisposeNextReturnsLeak(c) ==
  LET r == call[c]
  IN /\ r.pc = "disposeNext"
     /\ IF LoopContinues(r.elementHandle)
        THEN call' = [call EXCEPT ![c] = Advance(r)]
        ELSE call' = [call EXCEPT ![c] = [r EXCEPT !.pc = "completed"]]
     /\ UNCHANGED <<registryVars, last, handles>>

DisposeNextReturns(c) ==
  LET r == call[c]
  IN /\ r.pc = "disposeNext"
     /\ IF LoopContinues(r.elementHandle)
        THEN /\ call' = [call EXCEPT ![c] = Advance(r)]
             /\ UNCHANGED handles
        ELSE /\ handles' = Dispose(handles, r.iteratorHandle)
             /\ call' = [call EXCEPT ![c] = [r EXCEPT !.pc = "disposeIterator"]]
     /\ UNCHANGED <<registryVars, last>>

\* ... handle.dispose() is done: the generator returns
DisposeIteratorReturns(c) ==
  /\ call[c].pc = "disposeIterator"
  /\ call' = [call EXCEPT ![c] = [@ EXCEPT !.pc = "completed"]]
  /\ UNCHANGED <<registryVars, last, handles>>

\* ------------------------------------------------ for await consumers
\* for await (... of iterable): the first next() starts the generator
ForAwaitStart(c) ==
  /\ call[c].pc = "suspendedStart"
  /\ call' = [call EXCEPT ![c] = Advance([@ EXCEPT !.pulls = @ + 1])]
  /\ UNCHANGED <<registryVars, last, handles>>

\* Iterable.map: promises.push(callback(obj)), then the next next()
MapContinue(c) ==
  LET r == call[c]
  IN /\ r.pc = "suspendedYield"
     /\ r.consumer = "map"
     /\ ResumeAfterYield(c, [r EXCEPT !.running = @ \cup {r.elementHandle},
                                      !.pulls = @ + 1])
     /\ UNCHANGED <<registryVars, last>>

\* Iterable.reduce: initial = await callback(initial, obj) ...
ReduceCallback(c) ==
  LET r == call[c]
  IN /\ r.pc = "suspendedYield"
     /\ r.consumer = "reduce"
     /\ ~r.inBody
     /\ call' = [call EXCEPT ![c] = [r EXCEPT !.running = @ \cup {r.elementHandle},
                                              !.inBody = TRUE]]
     /\ UNCHANGED <<registryVars, last, handles>>

\* ... and, the callback done, the next next()
ReduceContinue(c) ==
  LET r == call[c]
  IN /\ r.pc = "suspendedYield"
     /\ r.consumer = "reduce"
     /\ r.inBody
     /\ r.running = {}
     /\ ResumeAfterYield(c, [r EXCEPT !.pulls = @ + 1])
     /\ UNCHANGED <<registryVars, last>>

\* a callback started by map or reduce finishes with its handle
CallbackFinishes(c, h) ==
  /\ h \in call[c].running
  /\ call' = [call EXCEPT ![c] = [@ EXCEPT !.running = @ \ {h}]]
  /\ UNCHANGED <<registryVars, last, handles>>

\* Iterable.first: return value, out of the loop: the loop calls the
\* generator's return(), which ends the generator at its yield
FirstReturn(c) ==
  LET r == call[c]
  IN /\ r.pc = "suspendedYield"
     /\ r.consumer = "first"
     /\ call' = [call EXCEPT ![c] = [r EXCEPT !.pc = "returned"]]
     /\ UNCHANGED <<registryVars, last, handles>>

InitBridge ==
  /\ queryHandlers = builtInHandlers
  /\ created = 0
  /\ last = NoCall
  /\ handles = <<>>
  /\ call = <<IdleCall>>
  /\ live = <<>>
  /\ removed = {}
  /\ recording = FALSE

NextBridge ==
  \/ \E c \in DOMAIN call, items \in TargetIterables, consumer \in Consumers :
       QueryAll(c, items, consumer)
  \/ \E c \in DOMAIN call : EvalQueryAllReturns(c)
  \/ \E c \in DOMAIN call : EvalQueryAllFails(c)
  \/ \E c \in DOMAIN call : EvalIteratorReturns(c)
  \/ \E c \in DOMAIN call : EvalIteratorFails(c)
  \/ \E c \in DOMAIN call : DisposeIterableReturns(c)
  \/ \E c \in DOMAIN call : ForAwaitStart(c)
  \/ \E c \in DOMAIN call : EvalNextReturns(c)
  \/ \E c \in DOMAIN call : EvalNextFails(c)
  \/ \E c \in DOMAIN call : DisposeNextReturns(c)
  \/ \E c \in DOMAIN call : DisposeIteratorReturns(c)
  \/ \E c \in DOMAIN call : MapContinue(c)
  \/ \E c \in DOMAIN call : ReduceCallback(c)
  \/ \E c \in DOMAIN call : ReduceContinue(c)
  \/ \E c \in DOMAIN call : \E h \in call[c].running : CallbackFinishes(c, h)
  \/ \E c \in DOMAIN call : FirstReturn(c)
  \/ \E c \in DOMAIN call, found \in Elements \cup NonElements :
       QueryOne(c, found)
  \/ \E c \in DOMAIN call : EvalQueryOneReturns(c)
  \/ \E c \in DOMAIN call : EvalQueryOneFails(c)
  \/ \E c \in DOMAIN call : DisposeJsReturns(c)

SpecBridge == InitBridge /\ [][NextBridge]_vars

\* --------------------------------------------------- bridge properties
\* The values before the first one that is no element.
RECURSIVE ElementPrefix(_)
ElementPrefix(items) ==
  IF items = <<>> \/ Head(items) \notin Elements THEN <<>>
  ELSE <<Head(items)>> \o ElementPrefix(Tail(items))

\* The values of the handles the consumer of call c has received, in order.
Yielded(c) ==
  [i \in DOMAIN call[c].results |-> handles[call[c].results[i]].value]

\* C9: what the consumer has received is at every moment the beginning of
\* the target iterator's elements before its first non-element, each from a
\* handle of its own, and is all of them once the sequence has ended.
C9_YieldsElementsInOrder ==
  \A c \in DOMAIN call :
    LET expected == ElementPrefix(call[c].items)
        got == Yielded(c)
    IN /\ Len(got) <= Len(expected)
       /\ got = SubSeq(expected, 1, Len(got))
       /\ \A i, j \in DOMAIN got :
            call[c].results[i] = call[c].results[j] => i = j
       /\ call[c].pc = "completed" => got = expected

\* C9 witness: the target iterable a, b, c was drained to its end.
C9_Witness ==
  /\ call[1].pc = "completed"
  /\ call[1].items = <<"a", "b", "c">>
  /\ Yielded(1) = <<"a", "b", "c">>

\* C10: once the consumer has abandoned the sequence, the iterator handle
\* has been disposed exactly once, and so has the handle of the last "next"
\* probe.
C10_AbandonDisposes ==
  \A c \in DOMAIN call :
    call[c].pc = "returned"
      => /\ handles[call[c].iteratorHandle].disposed = 1
         /\ handles[call[c].nextHandle].disposed = 1

\* The remote side answers every round-trip, the event loop runs every
\* continuation that is ready, and a draining consumer keeps pulling.
SpecBridgeFair == SpecBridge /\ WF_vars(NextBridge)

\* The handles of one kind that call c has been given.
HandlesOf(c, kind) ==
  {h \in DOMAIN handles : handles[h].call = c /\ handles[h].kind = kind}

\* C11: when the sequence has ended by exhaustion, the iterable handle, the
\* iterator handle and the non-element "next" handle that ended it have
\* each been disposed exactly once; and a sequence that a consumer has
\* started to drain ends, by exhaustion or by a failing remote call.
C11_AtCompletion ==
  \A c \in DOMAIN call :
    call[c].pc = "completed"
      => /\ handles[call[c].iterableHandle].disposed = 1
         /\ handles[call[c].iteratorHandle].disposed = 1
         /\ handles[call[c].nextHandle].value \notin Elements
         /\ handles[call[c].nextHandle].disposed = 1

C11_Drains ==
  \A c \in {1} :
    (call[c].pc = "suspendedStart" /\ call[c].consumer \in {"map", "reduce"})
      ~> (call[c].pc \in {"completed", "threw"})

C11_ExhaustionDisposesOnce == []C11_AtCompletion /\ C11_Drains

\* C11 witness: reduce has drained a sequence of two elements to its end.
C11_Witness ==
  /\ call[1].pc = "completed"
  /\ call[1].consumer = "reduce"
  /\ Len(call[1].results) = 2
  /\ handles[call[1].iteratorHandle].disposed = 1

\* C12: when a remote call of queryAll has failed and the failure has
\* reached the caller, every iterable and iterator handle the call had got
\* by then has been disposed (once).
C12_FailureDisposes ==
  \A c \in DOMAIN call :
    call[c].pc \in {"failed", "threw"}
      => \A h \in HandlesOf(c, "iterable") \cup HandlesOf(c, "iterator") :
           handles[h].disposed = 1

\* C13: the bridge has disposed no handle that it has yielded to the
\* consumer: every handle the consumer has received, and so every handle a
\* callback is still running on, has had no dispose() call from the bridge.
\* (The consumers of the model dispose nothing, so every dispose counted on
\* a handle is the bridge's.)
C13_YieldedNotDisposed ==
  \A c \in DOMAIN call :
    /\ \A i \in DOMAIN call[c].results :
         handles[call[c].results[i]].disposed = 0
    /\ \A h \in call[c].running : handles[h].disposed = 0

\* C14: when queryOne has returned, it has returned either the handle of
\* the remote result, which then denotes an element and has not been
\* disposed, or null, and then the remote result is no element and its
\* handle has been disposed exactly once.
C14_QueryOneElementOrNull ==
  \A c \in DOMAIN call :
    call[c].pc = "returnedOne"
      => LET js == handles[call[c].jsHandle]
         IN IF js.value \in Elements
            THEN call[c].result = call[c].jsHandle /\ js.disposed = 0
            ELSE call[c].result = 0 /\ js.disposed = 1

\* C14 witness: the raw queryOne returned null in the target, and queryOne
\* has returned null.
C14_Witness ==
  /\ call[1].pc = "returnedOne"
  /\ call[1].result = 0
  /\ handles[call[1].jsHandle].value = "null"
  /\ handles[call[1].jsHandle].disposed = 1

\* C15: every custom handler of the registry has queryOne and waitFor
\* exactly when its raw handler has queryOne, has queryAll and queryAllArray
\* exactly when its raw handler has queryAll, and has nothing else; a
\* successful registration has stored the adaptation of the raw handler it
\* was given; and a registration fails only for its name (taken, or not
\* made of letters), whatever functions the raw handler has.
C15_CapabilitiesMirrorRaw ==
  /\ \A i \in DOMAIN queryHandlers :
       LET h == queryHandlers[i].value
       IN h.kind = "custom"
            => /\ ("queryOne" \in h.caps) = h.raw.queryOne
               /\ ("waitFor" \in h.caps) = h.raw.queryOne
               /\ ("queryAll" \in h.caps) = h.raw.queryAll
               /\ ("queryAllArray" \in h.caps) = h.raw.queryAll
               /\ h.caps \subseteq {"queryOne", "waitFor", "queryAll",
                                    "queryAllArray"}
  /\ (last.op = "register" /\ last.outcome = "ok")
       => \E i \in DOMAIN queryHandlers :
            /\ queryHandlers[i].key = last.name
            /\ queryHandlers[i].value.raw = last.handler
  /\ (last.op = "register" /\ last.outcome # "ok")
       => \/ ~MatchesEngineName(last.name)
          \/ \E i \in DOMAIN queryHandlers : queryHandlers[i].key = last.name

\* C15 witness: a raw handler with neither function has just been
\* registered, and its internal handler has no capability.
C15_Witness ==
  /\ last.op = "register"
  /\ last.outcome = "ok"
  /\ last.handler = [queryOne |-> FALSE, queryAll |-> FALSE]
  /\ \E i \in DOMAIN queryHandlers :
       /\ queryHandlers[i].key = last.name
       /\ queryHandlers[i].value.caps = {}

\* C16: what _customQueryHandlerNames() returns is the names of the
\* successful registrations that no unregister or clear has removed since,
\* in the order of these registrations; it holds no built-in name and no
\* name twice.
C16_NamesAreLiveRegistrations ==
  last.op = "names"
    => /\ last.names = [i \in DOMAIN live |-> live[i].name]
       /\ \A i \in DOMAIN last.names : last.names[i] \notin BuiltInNames
       /\ \A i, j \in DOMAIN last.names :
            last.names[i] = last.names[j] => i = j
       /\ \A i, j \in DOMAIN live : i < j => live[i].obj < live[j].obj

\* C16 witness: Z was registered before a, then removed and registered
\* again; the names are listed as a, Z.
C16_Witness ==
  /\ last.op = "names"
  /\ last.names = <<<<"a">>, <<"Z">>>>
  /\ live = <<[name |-> <<"a">>, obj |-> 2], [name |-> <<"Z">>, obj |-> 3]>>
  /\ MapGet(queryHandlers, <<"a">>).obj = 2

\* The advance round-trips of call c that have been issued and not yet
\* answered: an answer is a new "next" handle, or the failure of the call.
OutstandingAdvances(c) ==
  call[c].advances - Cardinality(HandlesOf(c, "next"))
    - (IF call[c].pc = "threw" THEN 1 ELSE 0)

\* C17: in one iteration there have never been more advance round-trips
\* than pulls by the consumer, at most one advance is unanswered, and then
\* the bridge is waiting for it and for nothing else; an advance is issued
\* only when none is unanswered, one at a time.
C17_Inv ==
  \A c \in DOMAIN call :
    /\ call[c].advances <= call[c].pulls
    /\ OutstandingAdvances(c) \in {0, 1}
    /\ OutstandingAdvances(c) = 1 <=> call[c].pc = "evalNext"

C17_Step ==
  \A c \in DOMAIN call :
    call'[c].advances # call[c].advances
      => /\ call'[c].advances = call[c].advances + 1
         /\ OutstandingAdvances(c) = 0
         /\ call[c].pc \in {"suspendedStart", "disposeNext"}

C17_PullDrivenSequential == []C17_Inv /\ [][C17_Step]_vars

\* C17 witness: the consumer has pulled three times, the third advance is
\* on its way and two elements have been delivered.
C17_Witness ==
  /\ call[1].pc = "evalNext"
  /\ call[1].pulls = 3
  /\ call[1].advances = 3
  /\ Len(call[1].results) = 2

\* ------------------------------------------------ two calls in flight
\* Two queryAll calls whose round-trips and pulls interleave.
\* What the raw queryAll returns to either of them:
TwoCallIterables == {<<"a", "b">>, <<"a", "null">>}

InitTwo ==
  /\ queryHandlers = builtInHandlers
  /\ created = 0
  /\ last = NoCall
  /\ handles = <<>>
  /\ call = <<IdleCall, IdleCall>>
  /\ live = <<>>
  /\ removed = {}
  /\ recording = FALSE

NextTwo ==
  \/ \E c \in DOMAIN call, items \in TwoCallIterables, consumer \in Consumers :
       QueryAll(c, items, consumer)
  \/ \E c \in DOMAIN call : EvalQueryAllReturns(c)
  \/ \E c \in DOMAIN call : EvalQueryAllFails(c)
  \/ \E c \in DOMAIN call : EvalIteratorReturns(c)
  \/ \E c \in DOMAIN call : EvalIteratorFails(c)
  \/ \E c \in DOMAIN call : DisposeIterableReturns(c)
  \/ \E c \in DOMAIN call : ForAwaitStart(c)
  \/ \E c \in DOMAIN call : EvalNextReturns(c)
  \/ \E c \in DOMAIN call : EvalNextFails(c)
  \/ \E c \in DOMAIN call : DisposeNextReturns(c)
  \/ \E c \in DOMAIN call : DisposeIteratorReturns(c)
  \/ \E c \in DOMAIN call : MapContinue(c)
  \/ \E c \in DOMAIN call : ReduceCallback(c)
  \/ \E c \in DOMAIN call : ReduceContinue(c)
  \/ \E c \in DOMAIN call : \E h \in call[c].running : CallbackFinishes(c, h)
  \/ \E c \in DOMAIN call : FirstReturn(c)

SpecTwo == InitTwo /\ [][NextTwo]_vars

\* C18: two calls in flight never have a handle in common: each has its
\* own iterable and iterator handle and receives its own handles; what
\* each has received is the beginning of its own iterator's elements, and
\* all of them once its sequence has ended; and a step of one call leaves
\* the other call's state (position in its iterator included) and the
\* other call's handles as they are.
C18_Inv ==
  /\ \A c, d \in DOMAIN call :
       c # d =>
         /\ call[c].iteratorHandle # 0
              => call[c].iteratorHandle # call[d].iteratorHandle
         /\ call[c].iterableHandle # 0
              => call[c].iterableHandle # call[d].iterableHandle
         /\ \A i \in DOMAIN call[c].results, j \in DOMAIN call[d].results :
              call[c].results[i] # call[d].results[j]
  /\ \A c \in DOMAIN call :
       LET expected == ElementPrefix(call[c].items)
           got == Yielded(c)
       IN /\ call[c].iteratorHandle # 0
               => handles[call[c].iteratorHandle].call = c
          /\ \A i \in DOMAIN call[c].results :
               handles[call[c].results[i]].call = c
          /\ Len(got) <= Len(expected)
          /\ got = SubSeq(expected, 1, Len(got))
          /\ call[c].pc = "completed" => got = expected

C18_Step ==
  /\ \A c, d \in DOMAIN call :
       (call'[c] # call[c] /\ call'[d] # call[d]) => c = d
  /\ \A c \in DOMAIN call :
       call'[c] = call[c]
         => \A h \in DOMAIN handles :
              handles[h].call = c => handles'[h] = handles[h]

C18_CallsAreIndependent == []C18_Inv /\ [][C18_Step]_vars

\* C18 witness: two calls on the same iterable a, b whose round-trips
\* alternated from the start have both been drained, each to a, b.
C18_Witness ==
  /\ Len(call) = 2
  /\ call[1].items = <<"a", "b">> /\ call[2].items = <<"a", "b">>
  /\ call[1].iterableHandle = 1 /\ call[2].iterableHandle = 2
  /\ call[1].iteratorHandle = 3 /\ call[2].iteratorHandle = 4
  /\ call[1].pc = "completed" /\ call[2].pc = "completed"
  /\ Yielded(1) = <<"a", "b">> /\ Yielded(2) = <<"a", "b">>

\* C19: the bridge makes no remote call on a handle it has disposed.  The
\* iterable handle is not disposed while the iterator is being obtained
\* from it, is disposed only once the iterator handle is there, and its
\* disposal is over before the first advance; the iterator handle is not
\* disposed while an advance is unanswered, and once it is disposed the
\* generator is ending; no advance is issued on a disposed iterator handle,
\* and no handle is disposed a second time.
C19_Inv ==
  \A c \in DOMAIN call :
    LET r == call[c]
    IN /\ r.pc = "evalIterator" => handles[r.iterableHandle].disposed = 0
       /\ (r.iterableHandle # 0 /\ handles[r.iterableHandle].disposed # 0)
            => r.iteratorHandle # 0
       /\ r.advances > 0
            => handles[r.iterableHandle].disposed = 1 /\ r.pc # "disposeIterable"
       /\ r.pc = "evalNext" => handles[r.iteratorHandle].disposed = 0
       /\ (r.iteratorHandle # 0 /\ handles[r.iteratorHandle].disposed # 0)
            => /\ r.pc \in {"disposeIterator", "completed"}
               /\ r.advances = Cardinality(HandlesOf(c, "next"))

C19_Step ==
  /\ \A c \in DOMAIN call :
       call'[c].advances # call[c].advances
         => /\ handles[call[c].iteratorHandle].disposed = 0
            /\ handles'[call[c].iteratorHandle].disposed = 0
  /\ \A h \in DOMAIN handles :
       handles'[h].disposed # handles[h].disposed
         => handles[h].disposed = 0 /\ handles'[h].disposed = 1

C19_NoCallOnDisposedHandle == []C19_Inv /\ [][C19_Step]_vars

\* C19 witness: after three advances, all answered, the iterator handle
\* has been disposed.
C19_Witness ==
  /\ call[1].pc = "disposeIterator"
  /\ call[1].advances = 3
  /\ Cardinality(HandlesOf(1, "next")) = 3
  /\ handles[call[1].iteratorHandle].disposed = 1
  /\ handles[call[1].iterableHandle].disposed = 1

\* The names of the registrations removed so far, and of the live ones.
RemovedNames == {e.name : e \in removed}
LiveNames == {live[i].name : i \in DOMAIN live}

\* C20: registering a name whose registration was removed, and that has not
\* been registered again since, succeeds (the only failure left for such a
\* name is the duplicate of its new registration); resolving a custom
\* prefix returns the handler of the name's latest registration, never one
\* of a removed registration; and resolving the prefix of a removed name
\* that has not been registered again fails as an unknown engine.
C20_Inv ==
  /\ (last.op = "register" /\ last.name \in RemovedNames)
       => \/ /\ last.outcome = "ok"
             /\ live # <<>>
             /\ live[Len(live)] = [name |-> last.name, obj |-> created]
             /\ MapGet(queryHandlers, last.name).obj = created
             /\ MapGet(queryHandlers, last.name).raw = last.handler
          \/ /\ last.outcome = "duplicate"
             /\ last.name \in LiveNames
  /\ (last.op = "resolve" /\ last.outcome = "ok"
        /\ last.queryHandler.kind = "custom")
       => /\ \A e \in removed : e.obj # last.queryHandler.obj
          /\ \E i \in DOMAIN live :
               live[i] = [name |-> last.engine, obj |-> last.queryHandler.obj]
  /\ (last.op = "resolve" /\ HasEnginePrefix(last.name)
        /\ SubSeq(last.name, 1, FirstSlash(last.name) - 1)
             \in RemovedNames \ LiveNames)
       => last.outcome = "unknown"

C20_ReRegisterAfterRemoval == C20_Inv

\* C20 witness: a was registered, removed and registered again, and a/...
\* resolves to the handler of the second registration.
C20_Witness ==
  /\ last.op = "resolve"
  /\ last.outcome = "ok"
  /\ last.engine = <<"a">>
  /\ last.queryHandler.obj = 2
  /\ [name |-> <<"a">>, obj |-> 1] \in removed

====
